---- MODULE Spec2Model ----
(***************************************************************************)
(* Model of the Nim engine: Pile (src/unnamed/part_000) and NimGame        *)
(* (src/unnamed/part_001, lines 217-323).  Every public method of NimGame  *)
(* is one action; the variable lastCall records the call that produced the *)
(* current state (method, arguments, returned value or raised error).      *)
(* Array indices are 0-based as in the source.                             *)
(*                                                                         *)
(* UIManager (src/unnamed/part_001, lines 5-206) drives the engine: its    *)
(* handlers are the actions of UISpec.  Of the DOM only what decides a     *)
(* call on the engine is kept: the selection, the rendered pile elements   *)
(* and the handleAITurn continuations waiting for their timer.  showMenu,  *)
(* showGameOver and updateStatus touch CSS classes and texts only.         *)
(***************************************************************************)
EXTENDS Integers, Sequences, FiniteSets, TLC

VARIABLES piles, currentPlayer, gameOver, winner, initialConfig, lastCall,
          selectedPileIndex, selectedCount, board, pendingAITurns

vars == <<piles, currentPlayer, gameOver, winner, initialConfig, lastCall,
          selectedPileIndex, selectedCount, board, pendingAITurns>>

\* the UIManager's part of the state
ui == <<selectedPileIndex, selectedCount, board, pendingAITurns>>

engine == <<piles, currentPlayer, gameOver, winner, initialConfig>>

\* ---- bounds --------------------------------------------------------------
MaxPiles == 3
MaxCount == 2

\* handleAITurn continuations that may wait at the same time
MaxPending == 2

\* ---- values --------------------------------------------------------------
Players == {"user", "computer"}

null == "null"

\* an omitted (undefined) argument is <<>>, a given argument x is <<x>>
Undefined == <<>>

Given(x) == <<x>>

\* validated pile sizes: a non-empty list of positive integers, listed in
\* non-decreasing order (moves reach the other orders)
PileConfigs ==
    {c \in UNION {[1..n -> 1..MaxCount] : n \in 1..MaxPiles} :
        \A i \in DOMAIN c : i = 1 \/ c[i - 1] <= c[i]}

\* pile sizes handed to reset explicitly: one list of each length
ResetConfigs == {c \in PileConfigs : \A i \in DOMAIN c : c[i] = MaxCount}

\* arguments a caller may hand to userMove, legal or not
PileIndexArgs == -1..MaxPiles

AmountArgs == 0..(MaxCount + 1)

\* ---- results -------------------------------------------------------------
Ret(kind) == [kind |-> kind, move |-> <<>>]

RetMove(pileIndex, amount) == [kind |-> "move", move |-> <<pileIndex, amount>>]

TypeError == Ret("TypeError")

\* ---- Pile ----------------------------------------------------------------
Pile(initialCount, id) == [count |-> initialCount, id |-> id]

removeItems_noUpperCheck(pile, amount) ==
    IF amount > 0
    THEN [pile |-> [pile EXCEPT !.count = pile.count - amount], success |-> TRUE]
    ELSE [pile |-> pile, success |-> FALSE]

removeItems_allowsZero(pile, amount) ==
    IF amount >= 0 /\ amount <= pile.count
    THEN [pile |-> [pile EXCEPT !.count = pile.count - amount], success |-> TRUE]
    ELSE [pile |-> pile, success |-> FALSE]

removeItems_resetsId(pile, amount) ==
    IF amount > 0 /\ amount <= pile.count
    THEN [pile |-> [count |-> pile.count - amount, id |-> 0], success |-> TRUE]
    ELSE [pile |-> pile, success |-> FALSE]

removeItems_signError(pile, amount) ==
    IF amount > 0 /\ amount <= pile.count
    THEN [pile |-> [pile EXCEPT !.count = pile.count + amount], success |-> TRUE]
    ELSE [pile |-> pile, success |-> FALSE]

removeItems(pile, amount) ==
    IF amount > 0 /\ amount <= pile.count
    THEN [pile |-> [pile EXCEPT !.count = pile.count - amount], success |-> TRUE]
    ELSE [pile |-> pile, success |-> FALSE]

\* pileCounts.map((count, index) => new Pile(count, index))
MakePiles(pileCounts) ==
    [i \in 0..(Len(pileCounts) - 1) |-> Pile(pileCounts[i + 1], i)]

\* ---- arithmetic ----------------------------------------------------------
\* JavaScript ^ on two's-complement integers: ~x = -x - 1, and
\* a ^ b = ~(~a ^ b) = ~a ^ ~b.  All values stay inside the 32-bit range.
BitNot(x) == (0 - x) - 1

RECURSIVE XorBits(_, _)
XorBits(a, b) ==
    IF a = 0 THEN b
    ELSE IF b = 0 THEN a
    ELSE (((a % 2) + (b % 2)) % 2) + (2 * XorBits(a \div 2, b \div 2))

XorInt(a, b) ==
    IF a >= 0 /\ b >= 0 THEN XorBits(a, b)
    ELSE IF a < 0 /\ b < 0 THEN XorBits(BitNot(a), BitNot(b))
    ELSE IF a < 0 THEN BitNot(XorBits(BitNot(a), b))
    ELSE BitNot(XorBits(a, BitNot(b)))

\* x ^ y, each operand evaluated once
BitXor(x, y) == CHOOSE r \in {XorInt(a, b) : a \in {x}, b \in {y}} : TRUE

Min(S) == CHOOSE x \in S : \A y \in S : x <= y

NumPiles(ps) == Cardinality(DOMAIN ps)

\* this.piles.reduce((acc, pile) => acc ^ pile.count, 0)
RECURSIVE XorUpTo(_, _)
XorUpTo(ps, n) ==
    IF n = 0 THEN 0 ELSE BitXor(XorUpTo(ps, n - 1), ps[n - 1].count)

NimSum(ps) == XorUpTo(ps, NumPiles(ps))

\* this.piles.reduce((acc, pile) => acc + pile.count, 0)
RECURSIVE SumUpTo(_, _)
SumUpTo(ps, n) ==
    IF n = 0 THEN 0 ELSE SumUpTo(ps, n - 1) + ps[n - 1].count

TotalItems(ps) == SumUpTo(ps, NumPiles(ps))

\* ---- NimGame -------------------------------------------------------------
\* checkGameOver(): the new values of gameOver and winner
checkGameOver_otherWins(ps, cp, go, w) ==
    IF TotalItems(ps) = 0
    THEN [gameOver |-> TRUE, winner |-> IF cp = "user" THEN "computer" ELSE "user"]
    ELSE [gameOver |-> go, winner |-> w]

checkGameOver_anyEmpty(ps, cp, go, w) ==
    IF \E i \in DOMAIN ps : ps[i].count = 0
    THEN [gameOver |-> TRUE, winner |-> cp]
    ELSE [gameOver |-> go, winner |-> w]

checkGameOver(ps, cp, go, w) ==
    IF TotalItems(ps) = 0
    THEN [gameOver |-> TRUE, winner |-> cp]
    ELSE [gameOver |-> go, winner |-> w]

\* calculateBestMove(): a move, null, or the TypeError raised by
\* firstPile.id when find() returns undefined
calculateBestMove_takeOne(ps) ==
    LET nonEmpty == {i \in DOMAIN ps : ps[i].count > 0}
    IN  IF nonEmpty = {} THEN TypeError
        ELSE RetMove(ps[Min(nonEmpty)].id, 1)

calculateBestMove_noShrinkCheck(ps) ==
    LET nimSum == NimSum(ps)
        nonEmpty == {i \in DOMAIN ps : ps[i].count > 0}
    IN  IF nonEmpty = {} THEN TypeError
        ELSE IF nimSum = 0 THEN RetMove(ps[Min(nonEmpty)].id, 1)
        ELSE LET i == Min(nonEmpty)
             IN  RetMove(i, ps[i].count - BitXor(ps[i].count, nimSum))

calculateBestMove_lastShrink(ps) ==
    LET nimSum == NimSum(ps)
        nonEmpty == {i \in DOMAIN ps : ps[i].count > 0}
        shrink == {i \in DOMAIN ps : BitXor(ps[i].count, nimSum) < ps[i].count}
    IN  IF nonEmpty = {} THEN TypeError
        ELSE IF nimSum = 0 THEN RetMove(ps[Min(nonEmpty)].id, 1)
        ELSE LET i == CHOOSE x \in shrink : \A y \in shrink : y <= x
             IN  RetMove(i, ps[i].count - BitXor(ps[i].count, nimSum))

calculateBestMove_zeroSumNull(ps) ==
    LET nimSum == NimSum(ps)
        shrink == {i \in DOMAIN ps : BitXor(ps[i].count, nimSum) < ps[i].count}
    IN  IF nimSum = 0 \/ shrink = {} THEN Ret(null)
        ELSE RetMove(Min(shrink),
                     ps[Min(shrink)].count - BitXor(ps[Min(shrink)].count, nimSum))

calculateBestMove(ps) ==
    LET nimSum == NimSum(ps)
    IN  IF nimSum = 0
        THEN LET nonEmpty == {i \in DOMAIN ps : ps[i].count > 0}
             IN  IF nonEmpty = {}
                 THEN TypeError
                 ELSE RetMove(ps[Min(nonEmpty)].id, 1)
        ELSE LET shrink == {i \in DOMAIN ps :
                               BitXor(ps[i].count, nimSum) < ps[i].count}
             IN  IF shrink = {}
                 THEN Ret(null)
                 ELSE LET i == Min(shrink)
                      IN  RetMove(i, ps[i].count - BitXor(ps[i].count, nimSum))

Call(op, args, ret) == [op |-> op, args |-> args, ret |-> ret]

IsCall(c, op) == c.op = op

Returned(c, kind) == c.ret.kind = kind

\* UIManager constructor: nothing selected, nothing rendered, no timer
UIManagerInit ==
    /\ selectedPileIndex = -1
    /\ selectedCount = 0
    /\ board = {}
    /\ pendingAITurns = 0

\* constructor(pileCounts, startingPlayer)
Init ==
    /\ \E pileCounts \in PileConfigs, startingPlayer \in Players :
        /\ piles = MakePiles(pileCounts)
        /\ currentPlayer = startingPlayer
        /\ gameOver = FALSE
        /\ winner = null
        /\ initialConfig = [pileCounts |-> pileCounts,
                            startingPlayer |-> startingPlayer]
        /\ lastCall = Call("constructor", <<>>, Ret("void"))
    /\ UIManagerInit

UserMove_noTurnCheck(pileIndex, amount) ==
    IF pileIndex \notin DOMAIN piles
    THEN /\ lastCall' = Call("userMove", <<pileIndex, amount>>, TypeError)
         /\ UNCHANGED engine
    ELSE LET r == removeItems(piles[pileIndex], amount)
             ps == [piles EXCEPT ![pileIndex] = r.pile]
             g == checkGameOver(ps, currentPlayer, gameOver, winner)
         IN  IF r.success
             THEN /\ piles' = ps
                  /\ gameOver' = g.gameOver
                  /\ winner' = g.winner
                  /\ currentPlayer' = IF ~g.gameOver THEN "computer"
                                                     ELSE currentPlayer
                  /\ lastCall' = Call("userMove", <<pileIndex, amount>>, Ret("true"))
                  /\ UNCHANGED initialConfig
             ELSE /\ lastCall' = Call("userMove", <<pileIndex, amount>>, Ret("false"))
                  /\ UNCHANGED engine

\* userMove(pileIndex, amount)
UserMove(pileIndex, amount) ==
    IF currentPlayer # "user" \/ gameOver
    THEN /\ lastCall' = Call("userMove", <<pileIndex, amount>>, Ret("false"))
         /\ UNCHANGED engine
    ELSE IF pileIndex \notin DOMAIN piles
    THEN \* this.piles[pileIndex] is undefined: .removeItems raises
         /\ lastCall' = Call("userMove", <<pileIndex, amount>>, TypeError)
         /\ UNCHANGED engine
    ELSE LET r == removeItems(piles[pileIndex], amount)
             ps == [piles EXCEPT ![pileIndex] = r.pile]
             g == checkGameOver(ps, currentPlayer, gameOver, winner)
         IN  IF r.success
             THEN /\ piles' = ps
                  /\ gameOver' = g.gameOver
                  /\ winner' = g.winner
                  /\ currentPlayer' = IF ~g.gameOver THEN "computer"
                                                     ELSE currentPlayer
                  /\ lastCall' = Call("userMove", <<pileIndex, amount>>, Ret("true"))
                  /\ UNCHANGED initialConfig
             ELSE /\ lastCall' = Call("userMove", <<pileIndex, amount>>, Ret("false"))
                  /\ UNCHANGED engine

MakeAIMove_noTurnCheck ==
    \E move \in {calculateBestMove(piles)} :
        IF move.kind # "move" \/ move.move[1] \notin DOMAIN piles
        THEN /\ lastCall' = Call("makeAIMove", <<>>, TypeError)
             /\ UNCHANGED engine
        ELSE LET r == removeItems(piles[move.move[1]], move.move[2])
                 ps == [piles EXCEPT ![move.move[1]] = r.pile]
                 g == checkGameOver(ps, "computer", gameOver, winner)
             IN  /\ piles' = ps
                 /\ gameOver' = g.gameOver
                 /\ winner' = g.winner
                 /\ currentPlayer' = IF ~g.gameOver THEN "user" ELSE "computer"
                 /\ lastCall' = Call("makeAIMove", <<>>, move)
                 /\ UNCHANGED initialConfig

MakeAIMove_keepsTurn ==
    IF currentPlayer # "computer" \/ gameOver
    THEN /\ lastCall' = Call("makeAIMove", <<>>, Ret(null))
         /\ UNCHANGED engine
    ELSE \E move \in {calculateBestMove(piles)} :
             IF move.kind # "move" \/ move.move[1] \notin DOMAIN piles
             THEN /\ lastCall' = Call("makeAIMove", <<>>, TypeError)
                  /\ UNCHANGED engine
             ELSE LET r == removeItems(piles[move.move[1]], move.move[2])
                      ps == [piles EXCEPT ![move.move[1]] = r.pile]
                      g == checkGameOver(ps, currentPlayer, gameOver, winner)
                  IN  /\ piles' = ps
                      /\ gameOver' = g.gameOver
                      /\ winner' = g.winner
                      /\ lastCall' = Call("makeAIMove", <<>>, move)
                      /\ UNCHANGED <<currentPlayer, initialConfig>>

\* makeAIMove()
MakeAIMove ==
    IF currentPlayer # "computer" \/ gameOver
    THEN /\ lastCall' = Call("makeAIMove", <<>>, Ret(null))
         /\ UNCHANGED engine
    ELSE \E move \in {calculateBestMove(piles)} :
             IF move.kind = "TypeError"
             THEN /\ lastCall' = Call("makeAIMove", <<>>, TypeError)
                  /\ UNCHANGED engine
             ELSE IF move.kind = "move"
             THEN IF move.move[1] \notin DOMAIN piles
                  THEN /\ lastCall' = Call("makeAIMove", <<>>, TypeError)
                       /\ UNCHANGED engine
                  ELSE LET r == removeItems(piles[move.move[1]], move.move[2])
                           ps == [piles EXCEPT ![move.move[1]] = r.pile]
                           g == checkGameOver(ps, currentPlayer, gameOver, winner)
                       IN  /\ piles' = ps
                           /\ gameOver' = g.gameOver
                           /\ winner' = g.winner
                           /\ currentPlayer' = IF ~g.gameOver THEN "user"
                                                              ELSE currentPlayer
                           /\ lastCall' = Call("makeAIMove", <<>>, move)
                           /\ UNCHANGED initialConfig
             ELSE /\ lastCall' = Call("makeAIMove", <<>>, move)
                  /\ UNCHANGED engine

\* calculateBestMove() called on its own: a query
CalculateBestMove ==
    /\ lastCall' = Call("calculateBestMove", <<>>, calculateBestMove(piles))
    /\ UNCHANGED engine

Reset_fromCurrent(pileCountsArg, startingPlayerArg) ==
    LET pileCounts == IF pileCountsArg = Undefined
                      THEN [i \in 1..NumPiles(piles) |-> piles[i - 1].count]
                      ELSE pileCountsArg[1]
        startingPlayer == IF startingPlayerArg = Undefined
                          THEN initialConfig.startingPlayer
                          ELSE startingPlayerArg[1]
    IN  /\ initialConfig' = [pileCounts |-> pileCounts,
                             startingPlayer |-> startingPlayer]
        /\ piles' = MakePiles(pileCounts)
        /\ currentPlayer' = startingPlayer
        /\ gameOver' = FALSE
        /\ winner' = null
        /\ lastCall' = Call("reset", <<pileCountsArg, startingPlayerArg>>, Ret("void"))

Reset_keepsWinner(pileCountsArg, startingPlayerArg) ==
    LET pileCounts == IF pileCountsArg = Undefined
                      THEN initialConfig.pileCounts ELSE pileCountsArg[1]
        startingPlayer == IF startingPlayerArg = Undefined
                          THEN initialConfig.startingPlayer
                          ELSE startingPlayerArg[1]
    IN  /\ initialConfig' = [pileCounts |-> pileCounts,
                             startingPlayer |-> startingPlayer]
        /\ piles' = MakePiles(pileCounts)
        /\ currentPlayer' = startingPlayer
        /\ gameOver' = FALSE
        /\ lastCall' = Call("reset", <<pileCountsArg, startingPlayerArg>>, Ret("void"))
        /\ UNCHANGED winner

\* reset(pileCounts = this.initialConfig.pileCounts,
\*       startingPlayer = this.initialConfig.startingPlayer)
Reset(pileCountsArg, startingPlayerArg) ==
    LET pileCounts == IF pileCountsArg = Undefined
                      THEN initialConfig.pileCounts ELSE pileCountsArg[1]
        startingPlayer == IF startingPlayerArg = Undefined
                          THEN initialConfig.startingPlayer
                          ELSE startingPlayerArg[1]
    IN  /\ initialConfig' = [pileCounts |-> pileCounts,
                             startingPlayer |-> startingPlayer]
        /\ piles' = MakePiles(pileCounts)
        /\ currentPlayer' = startingPlayer
        /\ gameOver' = FALSE
        /\ winner' = null
        /\ lastCall' = Call("reset", <<pileCountsArg, startingPlayerArg>>, Ret("void"))

UserMoveCall == \E pileIndex \in PileIndexArgs, amount \in AmountArgs :
                    UserMove(pileIndex, amount)

ResetCall == \E pileCountsArg \in {Undefined} \cup {Given(c) : c \in ResetConfigs},
                startingPlayerArg \in {Undefined} \cup {Given(p) : p \in Players} :
                    Reset(pileCountsArg, startingPlayerArg)

\* the engine called directly: the UIManager's state stays as constructed
Next ==
    \/ UserMoveCall /\ UNCHANGED ui
    \/ MakeAIMove /\ UNCHANGED ui
    \/ CalculateBestMove /\ UNCHANGED ui
    \/ ResetCall /\ UNCHANGED ui

Spec == Init /\ [][Next]_vars

\* ---- one game, played to its end ------------------------------------------
\* a legal move of the user on the user's turn
LegalUserMove ==
    /\ currentPlayer = "user" /\ ~gameOver
    /\ \E pileIndex \in DOMAIN piles :
           \E amount \in 1..MaxCount :
               amount <= piles[pileIndex].count /\ UserMove(pileIndex, amount)
    /\ UNCHANGED ui

\* the computer's move on the computer's turn
AITurn == currentPlayer = "computer" /\ ~gameOver /\ MakeAIMove /\ UNCHANGED ui

\* one game: legal moves of the user interleaved with makeAIMove calls
GameNext == LegalUserMove \/ (MakeAIMove /\ UNCHANGED ui)

\* no reset; the user keeps playing and the computer's move is applied
FairGame == Init /\ [][GameNext]_vars /\ WF_vars(LegalUserMove) /\ WF_vars(AITurn)

\* ---- UIManager driving the engine ------------------------------------------
\* main.js: const initialConfig = [3, 4, 5]
MainConfig == <<3, 4, 5>>

\* pile sizes handleStartGame passes on (parsed, n > 0, at least one):
\* one list of each length
StartConfigs == ResetConfigs

\* DOMContentLoaded: new NimGame([3, 4, 5]), new UIManager(game), showMenu()
UIInit ==
    /\ piles = MakePiles(MainConfig)
    /\ currentPlayer = "user"
    /\ gameOver = FALSE
    /\ winner = null
    /\ initialConfig = [pileCounts |-> MainConfig, startingPlayer |-> "user"]
    /\ lastCall = Call("constructor", <<>>, Ret("void"))
    /\ UIManagerInit

\* resetSelection()
resetSelection ==
    /\ selectedPileIndex' = -1
    /\ selectedCount' = 0

\* countToSelect of the click handler for a click inside a pile element of
\* positive height: the index from the bottom is clamped into
\* 0..count-1; with count = 0 the division by 0 gives index 0, the upper
\* clamp turns it into -1 and countToSelect is 0 - (-1)
ClickCounts(count) == IF count > 0 THEN 1..count ELSE {1}

\* click on the pile element rendered for piles[index]; every reset is
\* followed by render() in the same handler, so the rendered elements
\* always hold the current Pile objects
PileClick(index) ==
    /\ index \in board
    /\ IF currentPlayer # "user" \/ gameOver
       THEN UNCHANGED vars
       ELSE /\ \E countToSelect \in ClickCounts(piles[index].count) :
                   /\ selectedPileIndex' = index
                   /\ selectedCount' = countToSelect
            /\ board' = DOMAIN piles
            /\ UNCHANGED <<engine, lastCall, pendingAITurns>>

\* handlePick(): userMove, resetSelection, render, then showGameOver or
\* handleAITurn up to its await; a raised error ends the handler at once
HandlePick ==
    IF selectedCount > 0
    THEN /\ UserMove(selectedPileIndex, selectedCount)
         /\ IF Returned(lastCall', "TypeError")
            THEN UNCHANGED ui
            ELSE /\ resetSelection
                 /\ board' = DOMAIN piles'
                 /\ IF gameOver'
                    THEN UNCHANGED pendingAITurns
                    ELSE /\ pendingAITurns < MaxPending
                         /\ pendingAITurns' = pendingAITurns + 1
    ELSE UNCHANGED vars

\* handleAITurn() after its timer: makeAIMove, then showGameOver or render
AITimerFires ==
    /\ pendingAITurns > 0
    /\ pendingAITurns' = pendingAITurns - 1
    /\ MakeAIMove
    /\ board' = IF gameOver' \/ Returned(lastCall', "TypeError")
                THEN board ELSE DOMAIN piles'
    /\ UNCHANGED <<selectedPileIndex, selectedCount>>

\* handleStartGame(): reset with the menu's settings, resetSelection,
\* showGame, and handleAITurn up to its await if the computer starts;
\* without a valid pile size it alerts and returns
HandleStartGame(counts, startPlayer) ==
    IF counts = <<>>
    THEN UNCHANGED vars
    ELSE /\ Reset(Given(counts), Given(startPlayer))
         /\ resetSelection
         /\ board' = DOMAIN piles'
         /\ IF startPlayer = "computer"
            THEN /\ pendingAITurns < MaxPending
                 /\ pendingAITurns' = pendingAITurns + 1
            ELSE UNCHANGED pendingAITurns

HandleRestart_noAITurn ==
    /\ Reset(Undefined, Undefined)
    /\ resetSelection
    /\ board' = DOMAIN piles'
    /\ UNCHANGED pendingAITurns

\* handleRestart(), also behind the play-again button
HandleRestart ==
    /\ Reset(Undefined, Undefined)
    /\ resetSelection
    /\ board' = DOMAIN piles'
    /\ IF currentPlayer' = "computer"
       THEN /\ pendingAITurns < MaxPending
            /\ pendingAITurns' = pendingAITurns + 1
       ELSE UNCHANGED pendingAITurns

UINext ==
    \/ \E index \in 0..(MaxPiles - 1) : PileClick(index)
    \/ HandlePick
    \/ AITimerFires
    \/ \E counts \in StartConfigs \cup {<<>>}, startPlayer \in Players :
           HandleStartGame(counts, startPlayer)
    \/ HandleRestart

UISpec == UIInit /\ [][UINext]_vars

\* the event loop runs every timer that is due
FairUISpec == UISpec /\ WF_vars(AITimerFires)

\* ---- properties ----------------------------------------------------------
\* C1: gameOver is true exactly when the piles hold no item at all
C1_GameOverIffEmpty == gameOver <=> (TotalItems(piles) = 0)

C1_Witness ==
    /\ gameOver /\ TotalItems(piles) = 0
    /\ IsCall(lastCall, "makeAIMove") /\ Returned(lastCall, "move")

Mover(c) == IF IsCall(c, "userMove") THEN "user"
            ELSE IF IsCall(c, "makeAIMove") THEN "computer" ELSE "nobody"

\* C2: outside reset, winner changes only in the step that makes gameOver
\* true, from none to the player whose move it was, and never afterwards
C2_WinnerSetOnce ==
    [][~IsCall(lastCall', "reset") =>
          /\ (winner' # winner) =>
                 /\ ~gameOver /\ gameOver'
                 /\ winner = null
                 /\ winner' = Mover(lastCall')
                 /\ TotalItems(piles) > 0 /\ TotalItems(piles') = 0
          /\ (~gameOver /\ gameOver') =>
                 (winner' = Mover(lastCall') /\ winner' \in Players)
          /\ gameOver => (winner' = winner /\ gameOver')]_vars

C2_Witness ==
    /\ gameOver /\ winner = "user"
    /\ IsCall(lastCall, "makeAIMove") /\ Returned(lastCall, null)

\* the computer is to move on a nonzero Nim-sum, or the user on a zero one
CompWinning ==
    /\ ~gameOver
    /\ \/ currentPlayer = "computer" /\ NimSum(piles) # 0
       \/ currentPlayer = "user" /\ NimSum(piles) = 0

\* C3: from a position won for the computer the user never becomes the
\* winner and the game ends with winner = computer
C3_PerfectPlay ==
    [](CompWinning => ([](winner # "user") /\ <>(gameOver /\ winner = "computer")))

C3_Witness ==
    /\ initialConfig.startingPlayer = "user"
    /\ NimSum(MakePiles(initialConfig.pileCounts)) = 0
    /\ NumPiles(piles) >= 2
    /\ gameOver /\ winner = "computer"

\* the position after the move <<pileIndex, amount>>
ApplyMove(ps, move) ==
    [ps EXCEPT ![move[1]] = removeItems(ps[move[1]], move[2]).pile]

\* C4: on a nonzero Nim-sum calculateBestMove returns a move whose
\* application, also by makeAIMove, leaves a Nim-sum of 0
C4_BestMoveZeroesNimSum ==
    [][/\ (IsCall(lastCall', "calculateBestMove") /\ NimSum(piles) # 0) =>
              /\ Returned(lastCall', "move")
              /\ lastCall'.ret.move[1] \in DOMAIN piles
              /\ NimSum(ApplyMove(piles, lastCall'.ret.move)) = 0
       /\ (/\ IsCall(lastCall', "makeAIMove")
           /\ currentPlayer = "computer" /\ ~gameOver
           /\ NimSum(piles) # 0) =>
              (Returned(lastCall', "move") /\ NimSum(piles') = 0)]_vars

C4_Witness ==
    /\ IsCall(lastCall, "makeAIMove") /\ Returned(lastCall, "move")
    /\ lastCall.ret.move[2] > 1
    /\ NimSum(piles) = 0 /\ ~gameOver

\* C5: a successful move that leaves an item flips currentPlayer; a move
\* that fails or is rejected leaves currentPlayer alone
C5_TurnAlternation ==
    [][/\ (/\ IsCall(lastCall', "userMove") /\ Returned(lastCall', "true")
           /\ TotalItems(piles') # 0) =>
              (currentPlayer = "user" /\ currentPlayer' = "computer")
       /\ (/\ IsCall(lastCall', "makeAIMove") /\ Returned(lastCall', "move")
           /\ TotalItems(piles') # 0) =>
              (currentPlayer = "computer" /\ currentPlayer' = "user")
       /\ (/\ lastCall'.op \in {"userMove", "makeAIMove"}
           /\ lastCall'.ret.kind \in {"false", null, "TypeError"}) =>
              currentPlayer' = currentPlayer]_vars

C5_Witness ==
    /\ IsCall(lastCall, "makeAIMove") /\ Returned(lastCall, "move")
    /\ currentPlayer = "user" /\ ~gameOver /\ TotalItems(piles) # 0

\* C6: a move out of turn or after the end returns false (userMove) or
\* null (makeAIMove) and changes no field of the engine
C6_RejectedOutOfTurn ==
    [][/\ (IsCall(lastCall', "userMove") /\ (currentPlayer # "user" \/ gameOver)) =>
              (Returned(lastCall', "false") /\ engine' = engine)
       /\ (IsCall(lastCall', "makeAIMove") /\ (currentPlayer # "computer" \/ gameOver)) =>
              (Returned(lastCall', null) /\ engine' = engine)]_vars

C6_Witness ==
    /\ IsCall(lastCall, "userMove") /\ Returned(lastCall, "false")
    /\ currentPlayer = "computer" /\ ~gameOver
    /\ lastCall.args[1] \in DOMAIN piles
    /\ lastCall.args[2] \in 1..piles[lastCall.args[1]].count

InvalidArgs(ps, pileIndex, amount) ==
    \/ amount <= 0
    \/ pileIndex \notin DOMAIN ps
    \/ amount > ps[pileIndex].count

\* C7: userMove with invalid arguments changes neither gameOver, winner,
\* currentPlayer nor any pile
C7_InvalidArgsNoChange ==
    [][(IsCall(lastCall', "userMove")
           /\ InvalidArgs(piles, lastCall'.args[1], lastCall'.args[2])) =>
          /\ piles' = piles
          /\ currentPlayer' = currentPlayer
          /\ gameOver' = gameOver
          /\ winner' = winner]_vars

C7_Witness ==
    /\ IsCall(lastCall, "userMove")
    /\ currentPlayer = "user" /\ ~gameOver
    /\ lastCall.args[1] \in DOMAIN piles
    /\ lastCall.args[2] > piles[lastCall.args[1]].count

\* C8: no call ends in a raised error
C8_NoFault == ~Returned(lastCall, "TypeError")

\* C9: calculateBestMove on piles that are all empty returns null
C9_EmptyReturnsNull ==
    (IsCall(lastCall, "calculateBestMove") /\ \A i \in DOMAIN piles : piles[i].count = 0)
        => Returned(lastCall, null)

\* C10: removeItems(a) on count c, as userMove calls it: true and c - a
\* when 0 < a <= c, false and c otherwise
C10_RemoveItems ==
    [][(/\ IsCall(lastCall', "userMove")
        /\ currentPlayer = "user" /\ ~gameOver
        /\ lastCall'.args[1] \in DOMAIN piles) =>
          LET c == piles[lastCall'.args[1]].count
              a == lastCall'.args[2]
          IN  IF 0 < a /\ a <= c
              THEN /\ Returned(lastCall', "true")
                   /\ piles'[lastCall'.args[1]].count = c - a
              ELSE /\ Returned(lastCall', "false")
                   /\ piles'[lastCall'.args[1]].count = c]_vars

C10_Witness ==
    /\ IsCall(lastCall, "userMove") /\ Returned(lastCall, "true")
    /\ lastCall.args[2] = MaxCount
    /\ piles[lastCall.args[1]].count = 0
    /\ ~gameOver

IsMove(c) == c.op \in {"userMove", "makeAIMove"}

\* C11: reset() without arguments restores the stored configuration and
\* keeps it; reset with an argument stores that argument; no move or query
\* alters the stored configuration
C11_ResetRestores ==
    [][/\ IsCall(lastCall', "reset") =>
              /\ initialConfig'.pileCounts =
                     IF lastCall'.args[1] = Undefined
                     THEN initialConfig.pileCounts ELSE lastCall'.args[1][1]
              /\ initialConfig'.startingPlayer =
                     IF lastCall'.args[2] = Undefined
                     THEN initialConfig.startingPlayer ELSE lastCall'.args[2][1]
              /\ NumPiles(piles') = Len(initialConfig'.pileCounts)
              /\ \A i \in DOMAIN piles' :
                     piles'[i].count = initialConfig'.pileCounts[i + 1]
              /\ currentPlayer' = initialConfig'.startingPlayer
              /\ ~gameOver' /\ winner' = null
       /\ (IsMove(lastCall') \/ IsCall(lastCall', "calculateBestMove")) =>
              initialConfig' = initialConfig]_vars

C11_Witness ==
    /\ IsCall(lastCall, "reset") /\ lastCall.args = <<Undefined, Undefined>>
    /\ initialConfig.startingPlayer = "computer"
    /\ Len(initialConfig.pileCounts) = MaxPiles
    /\ \A i \in DOMAIN piles : piles[i].count = initialConfig.pileCounts[i + 1]
    /\ currentPlayer = "computer" /\ ~gameOver /\ winner = null

\* i is the lowest index of ps with P(i)
IsLowest(ps, i, P(_)) ==
    /\ i \in DOMAIN ps /\ P(i)
    /\ \A j \in DOMAIN ps : j < i => ~P(j)

\* C12: with a non-empty pile, calculateBestMove returns (lowest non-empty
\* pile, 1) on Nim-sum 0 and (lowest i with count[i] XOR s < count[i],
\* count[i] - (count[i] XOR s)) on Nim-sum s # 0
C12_BestMoveRule ==
    (IsCall(lastCall, "calculateBestMove") /\ \E i \in DOMAIN piles : piles[i].count > 0) =>
        LET s == NimSum(piles)
            NonEmpty(i) == piles[i].count > 0
            Shrinks(i) == BitXor(piles[i].count, s) < piles[i].count
        IN  /\ Returned(lastCall, "move")
            /\ IF s = 0
               THEN /\ IsLowest(piles, lastCall.ret.move[1], NonEmpty)
                    /\ lastCall.ret.move[2] = 1
               ELSE /\ IsLowest(piles, lastCall.ret.move[1], Shrinks)
                    /\ lastCall.ret.move[2] =
                           piles[lastCall.ret.move[1]].count
                             - BitXor(piles[lastCall.ret.move[1]].count, s)

C12_Witness ==
    /\ IsCall(lastCall, "calculateBestMove") /\ Returned(lastCall, "move")
    /\ NimSum(piles) # 0
    /\ Cardinality({i \in DOMAIN piles :
                       BitXor(piles[i].count, NimSum(piles)) < piles[i].count}) >= 2

\* C13: counts are integers >= 0, and userMove and makeAIMove never raise
\* a count nor change the number of piles
C13_CountsNeverGrow ==
    [][/\ \A i \in DOMAIN piles : piles[i].count \in Nat
       /\ \A i \in DOMAIN piles' : piles'[i].count \in Nat
       /\ IsMove(lastCall') =>
              /\ DOMAIN piles' = DOMAIN piles
              /\ \A i \in DOMAIN piles : piles'[i].count <= piles[i].count]_vars

C13_Witness ==
    /\ IsCall(lastCall, "userMove") /\ Returned(lastCall, "true")
    /\ lastCall.args[2] = 1
    /\ piles[lastCall.args[1]].count = 0
    /\ currentPlayer = "computer"

\* C14: on the computer's turn of a running game what calculateBestMove
\* returns is a legal move, and makeAIMove applies that move, removes at
\* least one item and returns it
C14_AIMoveLegal ==
    [][(/\ currentPlayer = "computer" /\ ~gameOver
        /\ \/ IsCall(lastCall', "calculateBestMove")
           \/ IsCall(lastCall', "makeAIMove")) =>
          \A m \in {lastCall'.ret} :
              /\ m.kind = "move"
              /\ m.move[1] \in DOMAIN piles
              /\ 1 <= m.move[2] /\ m.move[2] <= piles[m.move[1]].count
              /\ IsCall(lastCall', "makeAIMove") =>
                     /\ piles' = ApplyMove(piles, m.move)
                     /\ TotalItems(piles') = TotalItems(piles) - m.move[2]
                     /\ TotalItems(piles') < TotalItems(piles)]_vars

C14_Witness ==
    /\ IsCall(lastCall, "makeAIMove") /\ Returned(lastCall, "move")
    /\ lastCall.ret.move[2] = 1
    /\ NimSum(piles) # 0 /\ currentPlayer = "user" /\ ~gameOver

\* the move a successful call made: <<pileIndex, amount>>
MoveOf(c) == IF IsCall(c, "userMove") THEN c.args ELSE c.ret.move

\* C15: a successful move lowers the chosen pile by the chosen amount and
\* leaves the other counts, all ids, the number of piles and initialConfig
C15_MoveFrame ==
    [][(\/ IsCall(lastCall', "userMove") /\ Returned(lastCall', "true")
        \/ IsCall(lastCall', "makeAIMove") /\ Returned(lastCall', "move")) =>
          LET p == MoveOf(lastCall')[1]
              a == MoveOf(lastCall')[2]
          IN  /\ p \in DOMAIN piles /\ a >= 1
              /\ DOMAIN piles' = DOMAIN piles
              /\ piles'[p].count = piles[p].count - a
              /\ \A i \in DOMAIN piles :
                     /\ piles'[i].id = piles[i].id
                     /\ i # p => piles'[i].count = piles[i].count
              /\ initialConfig' = initialConfig]_vars

C15_Witness ==
    /\ IsCall(lastCall, "userMove") /\ Returned(lastCall, "true")
    /\ lastCall.args[1] = MaxPiles - 1
    /\ piles[lastCall.args[1]].id = MaxPiles - 1
    /\ \A i \in DOMAIN piles :
           i # lastCall.args[1] => piles[i].count = initialConfig.pileCounts[i + 1]

\* C16: every successful move strictly lowers the total, which never drops
\* below 0, and under fairness gameOver eventually holds
C16_Terminates ==
    /\ <>gameOver
    /\ [][(\/ IsCall(lastCall', "userMove") /\ Returned(lastCall', "true")
           \/ IsCall(lastCall', "makeAIMove") /\ Returned(lastCall', "move")) =>
             /\ TotalItems(piles') < TotalItems(piles)
             /\ TotalItems(piles') >= 0]_vars

C16_Witness ==
    /\ gameOver /\ TotalItems(piles) = 0
    /\ Len(initialConfig.pileCounts) = MaxPiles
    /\ \A i \in 1..MaxPiles : initialConfig.pileCounts[i] = MaxCount

\* C17: winner is none exactly while the game runs, and once the game is
\* over currentPlayer is the winner
C17_WinnerIffOver ==
    /\ (winner = null) <=> ~gameOver
    /\ gameOver => (currentPlayer = winner /\ winner \in Players)

C17_Witness ==
    /\ gameOver /\ winner = "user" /\ currentPlayer = "user"
    /\ IsCall(lastCall, "userMove") /\ Returned(lastCall, "true")

Other(player) == IF player = "user" THEN "computer" ELSE "user"

\* C18: under the UIManager, with several timers pending, a step that
\* changes the piles without reset is one move of the player whose turn it
\* is and passes the turn on (or ends the game); the turn changes in no
\* other way; a timer applies one computer move on the computer's turn and
\* leaves the engine alone otherwise
C18_TimersKeepAlternation ==
    [][/\ (piles' # piles /\ ~IsCall(lastCall', "reset")) =>
              /\ IsMove(lastCall')
              /\ ~gameOver /\ currentPlayer = Mover(lastCall')
              /\ IF gameOver' THEN winner' = Mover(lastCall')
                              ELSE currentPlayer' = Other(Mover(lastCall'))
       /\ (currentPlayer' # currentPlayer /\ ~IsCall(lastCall', "reset")) =>
              piles' # piles
       /\ (pendingAITurns' = pendingAITurns - 1) =>
              /\ IsCall(lastCall', "makeAIMove")
              /\ IF currentPlayer # "computer" \/ gameOver
                 THEN engine' = engine /\ Returned(lastCall', null)
                 ELSE /\ Returned(lastCall', "move")
                      /\ piles' = ApplyMove(piles, lastCall'.ret.move)
                      /\ TotalItems(piles') =
                             TotalItems(piles) - lastCall'.ret.move[2]]_vars

C18_Witness ==
    /\ IsCall(lastCall, "makeAIMove") /\ Returned(lastCall, null)
    /\ currentPlayer = "user" /\ ~gameOver
    /\ TotalItems(piles) < TotalItems(MakePiles(initialConfig.pileCounts))
    /\ pendingAITurns >= 1

\* C19: while the computer is to move a handleAITurn timer is pending, and
\* the computer's turn always comes to an end (its move or a reset)
C19_NeverStuckOnComputer ==
    /\ []((currentPlayer = "computer" /\ ~gameOver) => pendingAITurns >= 1)
    /\ (currentPlayer = "computer" /\ ~gameOver) ~> (currentPlayer = "user" \/ gameOver)

C19_Witness ==
    /\ currentPlayer = "computer" /\ ~gameOver
    /\ IsCall(lastCall, "userMove") /\ Returned(lastCall, "true")
    /\ pendingAITurns = MaxPending

\* C20: a positive selection is a legal move of the user, and every
\* userMove that handlePick issues returns true
C20_SelectionLegal ==
    /\ selectedCount > 0 =>
           /\ currentPlayer = "user" /\ ~gameOver
           /\ selectedPileIndex \in DOMAIN piles
           /\ selectedCount <= piles[selectedPileIndex].count
    /\ IsCall(lastCall, "userMove") => Returned(lastCall, "true")

====
